---- MODULE Spec2Model ----
(***************************************************************************)
(* Model of parallel_data_prefetch and _do_parallel_data_prefetch          *)
(* (src/ldm/util.py): one coordinator that validates and partitions the    *)
(* input, creates and starts n_proc workers, collects their messages from  *)
(* a bounded FIFO queue, joins them and assembles the result; and n_proc   *)
(* workers that apply func to one partition and put [idx, res] and "Done". *)
(***************************************************************************)
EXTENDS Integers, Sequences, FiniteSets, TLC

\* Longest input collection drawn by Init.
MaxLen == 6

\* Largest worker count drawn by Init.
MaxProc == 2

\* mp.Queue(1000) / Queue(1000)
QueueCapacity == 1000

VARIABLES
    input,             \* the data argument as passed by the caller
    func,              \* the func argument (which callable)
    n_proc,            \* the n_proc argument
    target_data_type,  \* the target_data_type argument
    cpu_intensive,     \* TRUE: mp.Process / mp.Queue, FALSE: Thread / Queue
    use_worker_id,     \* the use_worker_id argument
    data,              \* data after the conversion of lines 165-180
    arguments,         \* the argument lists built at lines 189-205
    wstate,            \* per worker: none/created/running/computed/raising/
                       \*   finishing/exited/failed/terminated
    wout,              \* per worker: the messages it still has to put
    wbuf,              \* per worker process: messages put on the mp.Queue that its
                       \*   feeder thread has not yet written to the pipe
    markers,           \* workers whose completion marker the coordinator has received
    Q,                 \* the queue, oldest message first
    gather_res,        \* the gather buffer
    k,                 \* completion markers counted by the collecting loop
    i,                 \* index of the coordinator's current for-loop
    pc,                \* the coordinator's position
    exc,               \* the exception pending in the coordinator ("None" if none)
    err,               \* the exception that reached the caller ("None" if none)
    result,            \* the returned value
    joined,            \* workers whose join() has returned
    arrival,           \* partition indices of the result envelopes, in the order received
    fcalls,            \* number of times func has been called
    Qfrom              \* for each message of Q, the worker that put it

params == <<input, func, n_proc, target_data_type, cpu_intensive, use_worker_id>>
vars == <<input, func, n_proc, target_data_type, cpu_intensive, use_worker_id,
          data, arguments, wstate, wout, Q, gather_res, k, i, pc, exc, err,
          result, joined, arrival, fcalls, Qfrom, wbuf, markers>>

Min(a, b) == IF a < b THEN a ELSE b

\* ------------------------------------------------------------------ values

\* A list or an ndarray: its kind and its elements in order.
Coll(kind, elems) == [kind |-> kind, elems |-> elems]

EmptyList == Coll("list", <<>>)

\* range(len): the elements 0 .. len-1 in order.
Range(len) == [j \in 1..len |-> j - 1]

\* A dict with len entries, in insertion order: entry j is key 10+j -> value j-1.
DictItems(len) == [j \in 1..len |-> <<10 + j, j - 1>>]

\* data = [0,1,2,3,4,5,6,7], the input of the specification's scenario.
ScenarioData == Coll("list", Range(8))

\* The data arguments Init draws from: lists, arrays and dicts of every
\* length up to MaxLen, one object that is not iterable, and ScenarioData.
Inputs ==
    {Coll(kd, Range(len)) : kd \in {"list", "ndarray"}, len \in 0..MaxLen}
      \cup {Coll("dict", DictItems(len)) : len \in 0..MaxLen}
      \cup {Coll("scalar", <<>>), ScenarioData}

\* The callables Init draws from:
\*   identity  lambda x: x
\*   double    lambda x: x * 2
\*   checked   def f(x): raises if 1 is in x, else returns x
\*   offset    def f(x, worker_id=0): adds worker_id to every element
Funcs == {"identity", "double", "checked", "offset"}

TargetTypes == {"ndarray", "list", "raw"}

\* ------------------------------------------------- validation (165-180)

\* isinstance(data, abc.Iterable)
IsIterable(d) == d.kind \in {"list", "ndarray", "dict"}

\* Mutant of DictValues: list(data) on a dict, which yields its keys.
DictKeys(d) == [j \in 1..Len(d.elems) |-> d.elems[j][1]]

\* list(data.values()): the values of the entries in insertion order.
DictValues(d) == [j \in 1..Len(d.elems) |-> d.elems[j][2]]

\* Mutant of Convert: the check of line 165 is missing.
ConvertNoCheck(d, target) ==
    IF IsIterable(d)
    THEN LET elems == IF d.kind = "dict" THEN DictValues(d) ELSE d.elems
         IN  [error |-> "None",
              data |-> IF target = "ndarray" THEN Coll("ndarray", elems)
                                              ELSE Coll("list", elems)]
    ELSE [error |-> "TypeError: The data has to be either an np.ndarray or an Iterable",
          data |-> EmptyList]

\* The outcome of lines 165-180: the exception raised, or the converted data.
Convert(d, target) ==
    IF d.kind = "ndarray" /\ target = "list"
    THEN [error |-> "ValueError: list expected but function got ndarray.",
          data |-> EmptyList]
    ELSE IF IsIterable(d)
    THEN LET elems == IF d.kind = "dict" THEN DictValues(d) ELSE d.elems
         IN  [error |-> "None",
              data |-> IF target = "ndarray" THEN Coll("ndarray", elems)
                                              ELSE Coll("list", elems)]
    ELSE [error |-> "TypeError: The data has to be either an np.ndarray or an Iterable",
          data |-> EmptyList]

\* ------------------------------------------------ partitioning (189-205)

\* data[lo:hi] for 0 <= lo, with hi clipped to the length.
Slice(d, lo, hi) == Coll(d.kind, SubSeq(d.elems, lo + 1, Min(hi, Len(d.elems))))

\* np.array_split(data, n): n sections, the first len % n of them one longer.
ArraySplit(d, n) ==
    LET len == Len(d.elems)
        each == len \div n
        extras == len % n
        start(j) == (j - 1) * each + Min(j - 1, extras)
        size(j) == each + (IF j <= extras THEN 1 ELSE 0)
    IN  [j \in 1..n |-> Slice(d, start(j), start(j) + size(j))]

\* Mutant of Step: the stride is rounded down.
StepFloor(len, n) == len \div n

\* step of lines 195-199.
Step(len, n) == IF len % n # 0 THEN (len \div n) + 1 ELSE len \div n

\* [data[i: i + step] for i in range(0, len(data), step)], for step > 0.
StrideSplit(d, step) ==
    LET len == Len(d.elems)
        count == (len + step - 1) \div step
    IN  [j \in 1..count |-> Slice(d, (j - 1) * step, j * step)]

\* [[func, Q, part, i, use_worker_id] for i, part in enumerate(parts)]
Enumerate(parts) == [j \in 1..Len(parts) |-> [part |-> parts[j], idx |-> j - 1]]

\* --------------------------------------------------- the worker (146-155)

Doubled(part) ==
    IF part.kind = "list"
    THEN Coll("list", part.elems \o part.elems)
    ELSE Coll(part.kind, [j \in 1..Len(part.elems) |-> part.elems[j] * 2])

Shifted(part, by) ==
    Coll(part.kind, [j \in 1..Len(part.elems) |-> part.elems[j] + by])

\* func(data) or func(data, worker_id=idx): whether it returned, and what.
ApplyF(f, part, idx, idx_to_fn) ==
    CASE f = "offset" ->
           [ok |-> TRUE, res |-> Shifted(part, IF idx_to_fn THEN idx ELSE 0)]
      [] f # "offset" /\ idx_to_fn ->
           [ok |-> FALSE, res |-> EmptyList]
      [] f = "identity" /\ ~idx_to_fn ->
           [ok |-> TRUE, res |-> part]
      [] f = "double" /\ ~idx_to_fn ->
           [ok |-> TRUE, res |-> Doubled(part)]
      [] f = "checked" /\ ~idx_to_fn ->
           IF \E j \in 1..Len(part.elems) : part.elems[j] = 1
           THEN [ok |-> FALSE, res |-> EmptyList]
           ELSE [ok |-> TRUE, res |-> part]

ResultMsg(idx, res) == [done |-> FALSE, idx |-> idx, res |-> res]
DoneMsg == [done |-> TRUE, idx |-> 0, res |-> EmptyList]

\* Mutant of WorkerMessages: the completion marker is put first.
WorkerMessagesDoneFirst(idx, res) == <<DoneMsg, ResultMsg(idx, res)>>

\* The messages a worker puts after func returned, in the order it puts them.
WorkerMessages(idx, res) == <<ResultMsg(idx, res), DoneMsg>>

\* ------------------------------------------------------ assembly (241-253)

RECURSIVE Flatten(_)
Flatten(rs) == IF rs = <<>> THEN <<>> ELSE Head(rs).elems \o Flatten(Tail(rs))

RECURSIVE Reverse(_)
Reverse(rs) == IF rs = <<>> THEN <<>> ELSE Append(Reverse(Tail(rs)), Head(rs))

\* Mutant of Assemble: the buffer is read from its last slot to its first.
AssembleReversed(target, g) ==
    IF target = "ndarray" THEN Coll("ndarray", Flatten(Reverse(g)))
    ELSE IF target = "list" THEN Coll("list", Flatten(Reverse(g)))
    ELSE Coll("raw", Reverse(g))

Assemble(target, g) ==
    IF target = "ndarray" THEN Coll("ndarray", Flatten(g))
    ELSE IF target = "list" THEN Coll("list", Flatten(g))
    ELSE Coll("raw", g)

\* Mutant of StoreResult: results are stored in the order they arrive.
StoreInFirstFree(g, msg) ==
    LET free == {j \in 1..Len(g) : g[j] = EmptyList}
    IN  IF free = {} THEN g
        ELSE [g EXCEPT ![CHOOSE j \in free : \A j2 \in free : j <= j2] = msg.res]

\* gather_res[res[0]] = res[1]
StoreResult(g, msg) == [g EXCEPT ![msg.idx + 1] = msg.res]

\* ------------------------------------------------------------ the program

Workers == 1..n_proc

\* The worker counts Init draws from for a data argument: every count up to
\* MaxProc, and for ScenarioData also the scenario's n_proc = 3.
ProcCounts(d) == (1..MaxProc) \cup (IF d = ScenarioData THEN {3} ELSE {})

Init ==
    /\ input \in Inputs
    /\ func \in Funcs
    /\ n_proc \in ProcCounts(input)
    /\ target_data_type \in TargetTypes
    /\ cpu_intensive \in BOOLEAN
    /\ use_worker_id \in BOOLEAN
    /\ data = EmptyList
    /\ arguments = <<>>
    /\ wstate = [w \in 1..n_proc |-> "none"]
    /\ wout = [w \in 1..n_proc |-> <<>>]
    /\ wbuf = [w \in 1..n_proc |-> <<>>]
    /\ markers = {}
    /\ Q = <<>>
    /\ gather_res = <<>>
    /\ k = 0
    /\ i = 0
    /\ pc = "validate"
    /\ exc = "None"
    /\ err = "None"
    /\ result = EmptyList
    /\ joined = {}
    /\ arrival = <<>>
    /\ fcalls = 0
    /\ Qfrom = <<>>

\* An exception leaves parallel_data_prefetch.
Raise(e) ==
    /\ pc' = "raised"
    /\ err' = e

\* Lines 165-180: the type checks and the conversion of data.
Validate ==
    /\ pc = "validate"
    /\ LET c == Convert(input, target_data_type)
       IN  IF c.error # "None"
           THEN /\ Raise(c.error)
                /\ UNCHANGED data
           ELSE /\ data' = c.data
                /\ pc' = "partition"
                /\ UNCHANGED err
    /\ UNCHANGED <<params, wbuf, markers, Qfrom, arguments, wstate, wout, Q, gather_res, k, i, exc,
                   result, joined, arrival, fcalls>>

\* Lines 189-205: the argument list of every worker.
Partition ==
    /\ pc = "partition"
    /\ IF target_data_type = "ndarray"
       THEN /\ arguments' = Enumerate(ArraySplit(data, n_proc))
            /\ pc' = "spawn"
            /\ UNCHANGED err
       ELSE LET step == Step(Len(data.elems), n_proc)
            IN  IF step = 0
                THEN /\ Raise("ValueError: range() arg 3 must not be zero")
                     /\ UNCHANGED arguments
                ELSE /\ arguments' = Enumerate(StrideSplit(data, step))
                     /\ pc' = "spawn"
                     /\ UNCHANGED err
    /\ UNCHANGED <<params, wbuf, markers, Qfrom, data, wstate, wout, Q, gather_res, k, i, exc,
                   result, joined, arrival, fcalls>>

\* Lines 206-216: one worker object per i in range(n_proc), built from
\* arguments[i]; then the gather buffer.
Spawn ==
    /\ pc = "spawn"
    /\ IF Len(arguments) < n_proc
       THEN /\ Raise("IndexError: list index out of range")
            /\ wstate' = [w \in Workers |->
                            IF w <= Len(arguments) THEN "created" ELSE "none"]
            /\ UNCHANGED <<gather_res, i>>
       ELSE /\ wstate' = [w \in Workers |-> "created"]
            /\ gather_res' = [w \in Workers |-> EmptyList]
            /\ pc' = "start"
            /\ i' = 1
            /\ UNCHANGED err
    /\ UNCHANGED <<params, wbuf, markers, Qfrom, data, arguments, wout, Q, k, exc, result, joined,
                   arrival, fcalls>>

\* Lines 218-219: p.start() for the next worker.  start() can fail (the
\* target cannot be pickled, the system cannot create the process or
\* thread); the exception is caught at line 230.
StartWorker ==
    /\ pc = "start"
    /\ \E ok \in BOOLEAN :
         IF ok
         THEN /\ wstate' = [wstate EXCEPT ![i] = "running"]
              /\ IF i = n_proc
                 THEN pc' = "collect" /\ i' = 0
                 ELSE pc' = "start" /\ i' = i + 1
              /\ UNCHANGED exc
         ELSE /\ exc' = "StartError"
              /\ pc' = "except"
              /\ i' = 1
              /\ UNCHANGED wstate
    /\ k' = 0
    /\ UNCHANGED <<params, wbuf, markers, Qfrom, data, arguments, wout, Q, gather_res, err, result,
                   joined, arrival, fcalls>>

\* Lines 150-153: the worker calls func on its partition.  When func raises
\* nothing is put on the queue; the worker is still alive while the
\* exception leaves _do_parallel_data_prefetch and is reported.
WorkerRun(w) ==
    /\ wstate[w] = "running"
    /\ LET a == arguments[w]
           r == ApplyF(func, a.part, a.idx, use_worker_id)
       IN  IF r.ok
           THEN /\ wstate' = [wstate EXCEPT ![w] = "computed"]
                /\ wout' = [wout EXCEPT ![w] = WorkerMessages(a.idx, r.res)]
           ELSE /\ wstate' = [wstate EXCEPT ![w] = "raising"]
                /\ UNCHANGED wout
    /\ fcalls' = fcalls + 1
    /\ UNCHANGED <<params, wbuf, markers, Qfrom, data, arguments, Q, gather_res, k, i, pc,
                   exc, err, result, joined, arrival>>

\* Messages put on the mp.Queue by workers 1..n and not yet written to
\* the pipe.
RECURSIVE Buffered(_)
Buffered(n) == IF n = 0 THEN 0 ELSE Len(wbuf[n]) + Buffered(n - 1)

\* The queue slots in use: every put takes one and only Q.get() gives it
\* back.
SlotsInUse == Len(Q) + Buffered(n_proc)

\* Lines 154-155: the worker's next Q.put, which blocks while the queue is
\* full.  Queue.put of a thread appends to the queue itself; mp.Queue.put
\* of a process hands the message to the process's feeder thread and
\* returns.  After the last put the worker has still to end.
WorkerPut(w) ==
    /\ wstate[w] = "computed"
    /\ SlotsInUse < QueueCapacity
    /\ IF cpu_intensive
       THEN /\ wbuf' = [wbuf EXCEPT ![w] = Append(wbuf[w], Head(wout[w]))]
            /\ UNCHANGED <<Q, Qfrom>>
       ELSE /\ Q' = Append(Q, Head(wout[w]))
            /\ Qfrom' = Append(Qfrom, w)
            /\ UNCHANGED wbuf
    /\ wout' = [wout EXCEPT ![w] = Tail(wout[w])]
    /\ wstate' = [wstate EXCEPT
                    ![w] = IF Tail(wout[w]) = <<>> THEN "finishing" ELSE "computed"]
    /\ UNCHANGED <<params, markers, data, arguments, gather_res, k, i, pc, exc, err,
                   result, joined, arrival, fcalls>>

\* Whether worker w has been started and has not ended.
Alive(w) == wstate[w] \in {"running", "computed", "raising", "finishing"}

\* Line 154-155 in a process: the feeder thread of worker w writes the
\* oldest message it holds to the pipe, where Q.get() can read it.  The
\* feeder runs only while its process is alive.
WorkerFlush(w) ==
    /\ cpu_intensive
    /\ Alive(w)
    /\ wbuf[w] # <<>>
    /\ Q' = Append(Q, Head(wbuf[w]))
    /\ Qfrom' = Append(Qfrom, w)
    /\ wbuf' = [wbuf EXCEPT ![w] = Tail(wbuf[w])]
    /\ UNCHANGED <<params, markers, data, arguments, wstate, wout, gather_res, k, i, pc,
                   exc, err, result, joined, arrival, fcalls>>

\* The worker ends: _do_parallel_data_prefetch has returned or raised.  A
\* process ends only after its feeder thread has written every message.
WorkerExit(w) ==
    /\ \/ /\ wstate[w] = "raising"
          /\ wstate' = [wstate EXCEPT ![w] = "failed"]
       \/ /\ wstate[w] = "finishing"
          /\ wbuf[w] = <<>>
          /\ wstate' = [wstate EXCEPT ![w] = "exited"]
    /\ UNCHANGED <<params, wbuf, markers, Qfrom, data, arguments, wout, Q, gather_res, k,
                   i, pc, exc, err, result, joined, arrival, fcalls>>

\* Mutant of KeepCollecting: the loop stops one marker early.
KeepCollectingOneShort(count) == count < n_proc - 1

\* while k < n_proc
KeepCollecting(count) == count < n_proc

\* Lines 222-228: one pass of the collecting loop; Q.get() blocks while the
\* queue is empty.  The loop ends when k reaches n_proc.
Collect ==
    /\ pc = "collect"
    /\ KeepCollecting(k)
    /\ Q # <<>>
    /\ LET res == Head(Q)
           k1 == IF res.done THEN k + 1 ELSE k
       IN  /\ Q' = Tail(Q)
           /\ Qfrom' = Tail(Qfrom)
           /\ k' = k1
           /\ markers' = IF res.done THEN markers \cup {Head(Qfrom)} ELSE markers
           /\ IF res.done
              THEN UNCHANGED <<gather_res, arrival>>
              ELSE /\ gather_res' = StoreResult(gather_res, res)
                   /\ arrival' = Append(arrival, res.idx)
           /\ IF KeepCollecting(k1)
              THEN pc' = "collect" /\ i' = i
              ELSE pc' = "join" /\ i' = 1
    /\ UNCHANGED <<params, wbuf, data, arguments, wstate, wout, exc, err, result,
                   joined, fcalls>>

\* Lines 232-235: p.terminate() for the next worker.  A Thread has no
\* terminate(), and a Process that was never started has no child to
\* signal: both raise AttributeError, which replaces the caught exception.
\* A worker process that is alive is killed, whatever it was doing; what
\* its feeder thread had not yet written stays unwritten.
Terminate ==
    /\ pc = "except"
    /\ IF ~cpu_intensive \/ wstate[i] = "created"
       THEN /\ exc' = "AttributeError"
            /\ pc' = "join"
            /\ i' = 1
            /\ UNCHANGED wstate
       ELSE /\ wstate' = [wstate EXCEPT
                            ![i] = IF Alive(i) THEN "terminated" ELSE @]
            /\ IF i = n_proc
               THEN pc' = "join" /\ i' = 1
               ELSE pc' = "except" /\ i' = i + 1
            /\ UNCHANGED exc
    /\ UNCHANGED <<params, wbuf, markers, Qfrom, data, arguments, wout, Q, gather_res, k, err,
                   result, joined, arrival, fcalls>>

\* Mutant of JoinReturns: join does not wait for the worker.
JoinReturnsAtOnce(w) == TRUE

\* p.join() returns once worker w has ended.
JoinReturns(w) == ~Alive(w)

\* Lines 236-239: p.join() for the next worker, which blocks until the
\* worker has ended and raises for a worker that was never started.  After
\* the last join the pending exception, if any, propagates.
Join ==
    /\ pc = "join"
    /\ IF wstate[i] = "created"
       THEN /\ Raise(IF cpu_intensive
                     THEN "AssertionError: can only join a started process"
                     ELSE "RuntimeError: cannot join thread before it is started")
            /\ UNCHANGED <<joined, i>>
       ELSE /\ JoinReturns(i)
            /\ joined' = joined \cup {i}
            /\ IF i < n_proc
               THEN pc' = "join" /\ i' = i + 1 /\ UNCHANGED err
               ELSE /\ i' = i
                    /\ IF exc # "None"
                       THEN Raise(exc)
                       ELSE pc' = "assemble" /\ UNCHANGED err
    /\ UNCHANGED <<params, wbuf, markers, Qfrom, data, arguments, wstate, wout, Q, gather_res, k,
                   exc, result, arrival, fcalls>>

\* Lines 241-253: the value returned.
Return ==
    /\ pc = "assemble"
    /\ result' = Assemble(target_data_type, gather_res)
    /\ pc' = "returned"
    /\ UNCHANGED <<params, wbuf, markers, Qfrom, data, arguments, wstate, wout, Q, gather_res, k, i,
                   exc, err, joined, arrival, fcalls>>

Next ==
    \/ Validate
    \/ Partition
    \/ Spawn
    \/ StartWorker
    \/ Collect
    \/ Terminate
    \/ Join
    \/ Return
    \/ \E w \in Workers : WorkerRun(w)
    \/ \E w \in Workers : WorkerPut(w)
    \/ \E w \in Workers : WorkerFlush(w)
    \/ \E w \in Workers : WorkerExit(w)

Spec == Init /\ [][Next]_vars

\* ------------------------------------------------------------- properties

\* Worker w has been started (p.start() returned).
Started(w) ==
    wstate[w] \in {"running", "computed", "raising", "finishing", "exited", "failed",
                   "terminated"}

\* The workers built so far by the loop of lines 207-209 (a prefix of Workers).
Created == {w \in Workers : wstate[w] # "none"}

\* The partitions those workers were built from, in index order.
HandedParts == [w \in 1..Cardinality(Created) |-> arguments[w].part]

\* The coordinator has left the collecting loop through its condition.
LeftLoop == pc \in {"join", "assemble", "returned"} /\ exc = "None"

\* How many result envelopes tagged idx the coordinator has received.
Received(idx) == Cardinality({j \in 1..Len(arrival) : arrival[j] = idx})

\* The value the call yields when every partition is processed in index
\* order by one caller, computed from the arguments alone.
ExpectedResult ==
    LET d == Convert(input, target_data_type).data
        parts == IF target_data_type = "ndarray"
                 THEN ArraySplit(d, n_proc)
                 ELSE StrideSplit(d, Step(Len(d.elems), n_proc))
    IN  Assemble(target_data_type,
                 [w \in Workers |-> ApplyF(func, parts[w], w - 1, use_worker_id).res])

\* C1: with the identity function, n_proc in {1, 2, 8} and a list or array
\* input (of any length, also shorter than n_proc, not divisible by n_proc,
\* or empty), the call returns the input's elements in order; it raises
\* only if starting a worker failed.
C1_OrderPreservation ==
    (/\ func = "identity" /\ ~use_worker_id
     /\ n_proc \in {1, 2, 8}
     /\ input.kind \in {"list", "ndarray"}
     /\ target_data_type = (IF input.kind = "ndarray" THEN "ndarray" ELSE "list"))
    => /\ pc = "returned" => result.elems = input.elems
       /\ pc = "raised" => exc # "None"

\* C2: once func has raised in a worker, the call can only come to rest by
\* raising to the caller, with every other worker ended and all of them
\* joined; and it never returns a result.
C2_FailureTeardown ==
    (\E w \in Workers : wstate[w] \in {"raising", "failed"})
    => /\ pc # "returned"
       /\ ~(ENABLED Next) =>
            /\ pc = "raised"
            /\ \A w \in Workers : ~Alive(w) /\ w \in joined

\* C3 as stated: an input that is not an array, with target_data_type
\* "ndarray", makes the call raise before any worker is started and before
\* func is called.
C3_NonArrayRejected ==
    (input.kind # "ndarray" /\ target_data_type = "ndarray" /\ pc # "validate")
    => /\ pc = "raised"
       /\ fcalls = 0
       /\ \A w \in Workers : ~Started(w)

\* C3 amended: an array input with target_data_type "list" makes the call
\* raise the ValueError of line 166 before any worker is created or
\* started and before func is called.
C3_TypeMismatchFailsFast ==
    (input.kind = "ndarray" /\ target_data_type = "list" /\ pc # "validate")
    => /\ pc = "raised"
       /\ err = "ValueError: list expected but function got ndarray."
       /\ fcalls = 0
       /\ \A w \in Workers : wstate[w] = "none"
       /\ Q = <<>>

C3_Witness ==
    /\ input.kind = "ndarray" /\ target_data_type = "list"
    /\ Len(input.elems) > 0
    /\ pc = "raised"

\* C4: when the coordinator has left the collecting loop it has received
\* exactly n_proc completion markers and exactly one result envelope for
\* each partition index 0 .. n_proc-1, and nothing is left on the queue or
\* with a feeder thread.
C4_ExactlyOnce ==
    LeftLoop
    => /\ k = n_proc
       /\ \A w \in Workers : Received(w - 1) = 1
       /\ Len(arrival) = n_proc
       /\ markers = Workers
       /\ Q = <<>>
       /\ SlotsInUse = 0

C4_Witness ==
    /\ LeftLoop
    /\ n_proc = MaxProc
    /\ arrival[1] # 0

\* C5: once workers have been built, the partitions handed to them are
\* contiguous slices that cover every index of data exactly once, in index
\* order (the elements of data are their own indices), for the array split
\* and the stride split.
C5_PartitionCompleteness ==
    Created # {}
    => /\ Created = 1..Cardinality(Created)
       /\ Flatten(HandedParts) = data.elems
       /\ \A w \in Created : arguments[w].idx = w - 1

C5_Witness ==
    /\ Created = Workers
    /\ target_data_type = "list"
    /\ n_proc > 1
    /\ Len(data.elems) % n_proc # 0
    /\ \A w \in Workers : Started(w)

\* C6: when the call returns or raises after workers were started, every
\* started worker has ended and has been joined.
C6_NoWorkerLeftRunning ==
    pc \in {"returned", "raised"}
    => \A w \in Workers : Started(w) => ~Alive(w) /\ w \in joined

C6_Witness ==
    /\ pc = "raised"
    /\ ~cpu_intensive
    /\ \E w \in Workers : Started(w) /\ w \in joined /\ wstate[w] = "exited"
    /\ \E w \in Workers : ~Started(w)

\* C7: the value returned is the one determined by func, data and n_proc
\* alone, whatever the order in which the results arrived.
C7_ArrivalOrderIndependence ==
    pc = "returned" => result = ExpectedResult

C7_Witness ==
    /\ pc = "returned"
    /\ n_proc = MaxProc
    /\ arrival = [j \in 1..n_proc |-> n_proc - j]
    /\ \A w \in Workers : Len(gather_res[w].elems) > 0

\* The scenario of C8: data = [0..7], F = lambda x: x*2, n_proc = 3, list.
Scenario ==
    /\ input = ScenarioData
    /\ func = "double" /\ ~use_worker_id
    /\ n_proc = 3
    /\ target_data_type = "list"

\* C8 as stated: in the scenario the call returns [0,2,4,6,8,10,12,14].
C8_ScenarioElementwise ==
    (Scenario /\ pc = "returned")
    => result = Coll("list", <<0, 2, 4, 6, 8, 10, 12, 14>>)

\* C8 amended: in the scenario func receives each partition as a list, and
\* x*2 on a list repeats it: the call returns
\* [0,1,2,0,1,2,3,4,5,3,4,5,6,7,6,7] whichever worker finishes first.
C8_ScenarioRepeatsPartitions ==
    (Scenario /\ pc = "returned")
    => result = Coll("list", <<0, 1, 2, 0, 1, 2, 3, 4, 5, 3, 4, 5, 6, 7, 6, 7>>)

C8_Witness ==
    /\ Scenario
    /\ pc = "returned"
    /\ arrival[1] # 0

\* The values of a mapping input, in insertion order, read off the entries.
InputValues == [j \in 1..Len(input.elems) |-> input.elems[j][2]]
InputKeys == {input.elems[j][1] : j \in 1..Len(input.elems)}

\* C9: for a mapping input only the values are processed, in insertion
\* order: data holds the values and no key, the partitions of the workers
\* are the values in order, and the identity function returns them in order.
C9_MappingValuesOnly ==
    (input.kind = "dict" /\ pc # "validate")
    => /\ data.elems = InputValues
       /\ \A j \in 1..Len(data.elems) : data.elems[j] \notin InputKeys
       /\ Created # {} => Flatten(HandedParts) = InputValues
       /\ (pc = "returned" /\ func = "identity" /\ target_data_type # "raw")
            => result.elems = InputValues

C9_Witness ==
    /\ input.kind = "dict"
    /\ Len(input.elems) > n_proc
    /\ n_proc > 1
    /\ func = "identity"
    /\ target_data_type = "list"
    /\ pc = "returned"

\* A worker has ended without putting its completion marker.
DiedSilently(w) == wstate[w] = "failed"

\* C10: once a worker has ended without its completion marker, and no
\* exception has been raised in the coordinator, the coordinator is in its
\* start loop or in its collecting loop: it has not returned, not raised
\* and not reached the join step.
C10_SilentDeathHang ==
    ((\E w \in Workers : DiedSilently(w)) /\ exc = "None")
    => /\ pc \in {"start", "collect"}
       /\ joined = {}
       /\ k < n_proc

\* The coordinator is blocked for good: a worker died, every other worker
\* has exited, the queue is empty and no step is possible.
C10_Witness ==
    /\ \E w \in Workers : DiedSilently(w)
    /\ \E w \in Workers : wstate[w] = "exited"
    /\ pc = "collect"
    /\ Q = <<>>
    /\ ~(ENABLED Next)

\* The checks of lines 165-180 let the call through.
ValidationPasses == Convert(input, target_data_type).error = "None"

\* C11: once the argument lists are built there are exactly n_proc of them,
\* tagged 0 .. n_proc-1 in order, and once the worker objects are built
\* there is exactly one for each partition; for the array split and for the
\* stride split.
C11_OnePartitionPerWorker ==
    (ValidationPasses /\ pc \notin {"validate", "partition"})
    => /\ Len(arguments) = n_proc
       /\ \A w \in Workers : arguments[w].idx = w - 1
       /\ pc # "spawn" => Created = Workers

\* C12: when an exception was caught in the start/collect phase and the
\* call has raised, every worker built was joined and none is running, and
\* the caller received the exception that was caught, in process mode and
\* in thread mode.
C12_TeardownKeepsException ==
    (exc # "None" /\ pc = "raised")
    => /\ err = "StartError"
       /\ \A w \in Created : w \in joined /\ ~Alive(w)

\* Every enabled step of the coordinator or of a worker is eventually taken:
\* the workers are processes or threads the system keeps scheduling, and
\* none of them loops.
FairSpec == Spec /\ WF_vars(Next)

\* The partitions the call builds from its arguments (none when the stride
\* is 0).
BuiltParts ==
    LET d == Convert(input, target_data_type).data
        step == Step(Len(d.elems), n_proc)
    IN  IF target_data_type = "ndarray" THEN ArraySplit(d, n_proc)
        ELSE IF step = 0 THEN <<>>
        ELSE StrideSplit(d, step)

\* func returns normally on every partition of the call.
FReturnsNormally ==
    \A j \in 1..Len(BuiltParts) :
        ApplyF(func, BuiltParts[j], j - 1, use_worker_id).ok

\* C13: if validation passes and func returns normally on every partition,
\* then under fair scheduling the call eventually returns a result, unless
\* an exception was raised in the coordinator's start/collect phase.
C13_SuccessPathReturns ==
    (ValidationPasses /\ FReturnsNormally)
    => <>(pc = "returned" \/ exc # "None")

\* The same with the call restricted to those that build n_proc partitions:
\* these pass through the collecting loop with all n_proc markers received
\* and the join step, and return.
C13_ReturnsWhenPartitionsComplete ==
    (ValidationPasses /\ FReturnsNormally /\ Len(BuiltParts) = n_proc)
    => <>(exc # "None"
          \/ (pc = "returned" /\ k = n_proc /\ joined = Workers /\ Q = <<>>))

\* What worker w's call of func yields on its partition.
WorkerResult(w) ==
    ApplyF(func, arguments[w].part, arguments[w].idx, use_worker_id).res

\* The result envelope of partition idx has been received.
ResultReceived(idx) == \E j \in 1..Len(arrival) : arrival[j] = idx

\* C14: a worker never has its result envelope left to put once its marker
\* is out; in a feeder's hands and on the queue a worker's envelope lies
\* ahead of its marker; the count k is the number of markers received; so a
\* worker's marker is received only after its result, and when the count
\* of markers reaches n_proc every slot of the gather buffer holds its
\* worker's result.
C14_ResultBeforeMarker ==
    /\ \A w \in Workers :
         \/ wout[w] = <<>>
         \/ wout[w] = <<DoneMsg>>
         \/ wout[w] = <<ResultMsg(arguments[w].idx, WorkerResult(w)), DoneMsg>>
    /\ \A w \in Workers : \A p \in 1..Len(wbuf[w]) :
         IF wbuf[w][p].done
         THEN wout[w] = <<>> /\ p = Len(wbuf[w])
         ELSE p = 1 /\ ~\E q \in 1..Len(Q) : Qfrom[q] = w
    /\ \A p, q \in 1..Len(Q) :
         (p < q /\ Qfrom[p] = Qfrom[q]) => ~Q[p].done /\ Q[q].done
    /\ k = Cardinality(markers)
    /\ \A w \in markers :
         /\ ResultReceived(w - 1)
         /\ gather_res[w] = WorkerResult(w)
    /\ (pc \in {"collect", "join", "assemble", "returned"} /\ k = n_proc)
         => /\ markers = Workers
            /\ \A w \in Workers :
                 ResultReceived(w - 1) /\ gather_res[w] = WorkerResult(w)

\* The count has just reached n_proc, the last worker's result having
\* arrived first and the first worker's marker last.
C14_Witness ==
    /\ pc = "join" /\ joined = {} /\ exc = "None"
    /\ k = n_proc
    /\ n_proc = MaxProc
    /\ arrival[1] = n_proc - 1
    /\ arrival[n_proc] = 0

====
